---- MODULE Spec2Model ----
(***************************************************************************)
(* Job reservation of datajoint (datajoint/jobs.py): key_hash, the ~jobs   *)
(* table and JobRelation.reserve / complete / error, called by several     *)
(* worker processes that share one database.                               *)
(*                                                                         *)
(* Each call issues exactly one SQL statement (INSERT, DELETE or REPLACE)  *)
(* and touches no other shared state, so a call is one atomic step taken   *)
(* at the moment its statement executes; concurrent calls are the          *)
(* interleavings of these steps.                                           *)
(***************************************************************************)
EXTENDS Integers, Sequences, FiniteSets

VARIABLES
    jobs,      \* the rows of the ~jobs table of the shared database
    last,      \* the most recent call: who called what, and what it returned
    grants,    \* per unit: reserve calls that returned True since the last complete on it
    cycle,     \* how far the latest calls got through reserve (True), complete, reserve (True) on one unit
    race,      \* history summary: the calls so far are reserves of one (table, key), one per worker
    hk1, hk2,  \* two key dicts handed to key_hash (items in insertion order)
    out1, out2, \* what key_hash returned for them
    fault,     \* the condition the database server was in for the latest statement
    crashed,   \* the worker processes that have died
    holding,   \* per worker: the (table_name, key) it has reserved and is computing
    _jobs,     \* JobManager._jobs: the JobRelation cached for each database
    threads,   \* per thread of the process: where it is in JobManager.__getitem__
    got,       \* per thread: what its latest JobManager.__getitem__ returned
    made,      \* per database: how many JobRelation objects have been constructed
    returned,  \* per database: the objects __getitem__ has returned so far
    declared   \* the databases whose ~jobs table has been declared

hashVars == <<hk1, hk2, out1, out2>>

registryVars == <<_jobs, threads, got, made, returned, declared>>

vars == <<jobs, last, grants, cycle, race, hk1, hk2, out1, out2, fault, crashed,
          holding, _jobs, threads, got, made, returned, declared>>

-----------------------------------------------------------------------------
(* Bounds *)

NumWorkers == 2
MaxVal == 11
NumThreads == 2

Workers == 1..NumWorkers

-----------------------------------------------------------------------------
(* key_hash *)

\* field names of a primary key, listed in lexicographic order
FieldNames == <<"a", "b">>

Rank(name) == CHOOSE i \in DOMAIN FieldNames : FieldNames[i] = name

Values == 0..MaxVal

\* a dict is the sequence of its (name, value) items in insertion order
IsDict(s) == \A i, j \in DOMAIN s : i # j => s[i][1] # s[j][1]

Items == {<<FieldNames[i], v>> : i \in DOMAIN FieldNames, v \in Values}

Dicts == {s \in UNION {[1..n -> Items] : n \in 0..Len(FieldNames)} : IsDict(s)}

\* str(v) of a non-negative int: its decimal digits
RECURSIVE str(_)
str(v) == IF v < 10 THEN <<v>> ELSE str(v \div 10) \o <<v % 10>>

\* sorted(key.items()): the items ordered by field name
RECURSIVE SortSet(_)
SortSet(S) ==
    IF S = {} THEN <<>>
    ELSE LET m == CHOOSE x \in S : \A y \in S : Rank(x[1]) <= Rank(y[1])
         IN  <<m>> \o SortSet(S \ {m})

sorted(items) == SortSet({items[i] : i \in DOMAIN items})

\* the bytes fed to the digest by the successive hashed.update calls
RECURSIVE Fed(_)
Fed(items) ==
    IF items = <<>> THEN <<>>
    ELSE str(Head(items)[2]) \o Fed(Tail(items))

\* md5(...).hexdigest(), taken to be collision-free: the digest stands for
\* the byte string that was fed to it
hexdigest(bytes) == bytes

\* key_hash iterating key.items() in insertion order, without sorted()
key_hash_unsorted(key) == hexdigest(Fed(key))

key_hash(key) == hexdigest(Fed(sorted(key)))

-----------------------------------------------------------------------------
(* The ~jobs table *)

NULL == [null |-> TRUE, val |-> <<>>]

Blob(x) == [null |-> FALSE, val |-> x]

Attributes ==
    {"table_name", "key_hash", "status", "key", "error_message",
     "error_stack", "host", "pid"}

\* the --- line one attribute too low
primary_key_with_status == {"table_name", "key_hash", "status"}

\* the attributes above the --- line of the definition
primary_key == {"table_name", "key_hash"}

\* the defaults of the definition, for the attributes that have one
Defaults ==
    [key |-> NULL, error_message |-> "", error_stack |-> NULL,
     host |-> "", pid |-> 0]

\* the stored row of a dict handed to insert1
Row(d) ==
    [a \in Attributes |-> IF a \in DOMAIN d THEN d[a] ELSE Defaults[a]]

SamePK(r, d) == \A a \in primary_key : r[a] = d[a]

\* BaseRelation.insert1: INSERT, or REPLACE when replace is set; a
\* duplicate primary key makes INSERT fail with IntegrityError
\* The statement of a call runs in the condition fault' the server is in
\* when it arrives.  A statement sent while the server is unavailable fails
\* with OperationalError; one that breaks a constraint other than the
\* primary key (MySQL 1048, 1452, ...) fails with IntegrityError, like a
\* duplicate.
insert1(rel, d, replace) ==
    LET dup == {r \in rel : SamePK(r, Row(d))}
    IN  IF fault' = "unavailable"
        THEN [raised |-> "OperationalError", rel |-> rel]
        ELSE IF fault' = "constraint"
        THEN [raised |-> "IntegrityError", rel |-> rel]
        ELSE IF replace
        THEN [raised |-> "None", rel |-> (rel \ dup) \cup {Row(d)}]
        ELSE IF dup # {}
             THEN [raised |-> "IntegrityError", rel |-> rel]
             ELSE [raised |-> "None", rel |-> rel \cup {Row(d)}]

\* (self & restriction).delete_quick(): DELETE ... WHERE restriction
delete_quick(rel, restriction) ==
    IF fault' = "unavailable"
    THEN [raised |-> "OperationalError", rel |-> rel]
    ELSE [raised |-> "None",
          rel |-> {r \in rel : \E a \in DOMAIN restriction : r[a] # restriction[a]}]

-----------------------------------------------------------------------------
(* Workers and what they call with *)

\* os.uname().nodename and os.getpid() of a worker process
nodename(w) == IF w % 2 = 1 THEN "hostA" ELSE "hostB"

getpid(w) == 4000 + ((w + 1) \div 2)

Tables == {"T1", "T2"}

JobKeys ==
    { <<<<"a", 1>>, <<"b", 11>>>>,
      <<<<"a", 11>>, <<"b", 1>>>>,
      <<<<"b", 2>>, <<"a", 1>>>> }

Messages == {"boom"}

\* the (table_name, key) arguments the workers call with
Jobs ==
    {<<t, k>> \in Tables \X JobKeys : t = "T1" \/ k = <<<<"a", 1>>, <<"b", 11>>>>}

Units == {<<j[1], key_hash(j[2])>> : j \in Jobs}

UnitOf(table_name, key) == <<table_name, key_hash(key)>>

RowsOf(rel, u) == {r \in rel : r.table_name = u[1] /\ r.key_hash = u[2]}

\* existed: a row of the unit was in the table when the call's statement ran
Call(op, w, table_name, key, error_message, ret, exc) ==
    [op |-> op, w |-> w, table_name |-> table_name, key |-> key,
     error_message |-> error_message, ret |-> ret, exc |-> exc,
     existed |-> RowsOf(jobs, UnitOf(table_name, key)) # {}]

NoCall ==
    [op |-> "none", w |-> 0, table_name |-> "", key |-> <<>>,
     error_message |-> "", ret |-> "None", exc |-> "None", existed |-> FALSE]

NoCycle == [stage |-> 0, unit |-> <<>>]

NoRace == [phase |-> "over", table_name |-> "", key |-> <<>>,
           winners |-> {}, losers |-> {}]

Bump(n) == IF n < 2 THEN n + 1 ELSE n

\* the history summary after worker w's reserve of (table_name, key) returned ret
RaceAfterReserve(w, table_name, key, ret) ==
    IF /\ race.phase \in {"start", "racing"}
       /\ race.phase = "racing" => race.table_name = table_name /\ race.key = key
       /\ w \notin race.winners \cup race.losers
    THEN [phase |-> "racing", table_name |-> table_name, key |-> key,
          winners |-> IF ret THEN race.winners \cup {w} ELSE race.winners,
          losers |-> IF ret THEN race.losers ELSE race.losers \cup {w}]
    ELSE NoRace

-----------------------------------------------------------------------------
(* JobRelation *)

\* reserve with the insert done as a replace
reserve_result_replace(rel, w, table_name, key) ==
    LET job_key == [table_name |-> table_name, key_hash |-> key_hash(key),
                    status |-> "reserved", host |-> nodename(w), pid |-> getpid(w)]
        res == insert1(rel, job_key, TRUE)
    IN  IF res.raised = "IntegrityError"
        THEN [ret |-> FALSE, exc |-> "None", rel |-> res.rel]
        ELSE [ret |-> TRUE, exc |-> res.raised, rel |-> res.rel]

\* reserve with the two return statements exchanged
reserve_result_inverted(rel, w, table_name, key) ==
    LET job_key == [table_name |-> table_name, key_hash |-> key_hash(key),
                    status |-> "reserved", host |-> nodename(w), pid |-> getpid(w)]
        res == insert1(rel, job_key, FALSE)
    IN  IF res.raised = "IntegrityError"
        THEN [ret |-> TRUE, exc |-> "None", rel |-> res.rel]
        ELSE [ret |-> FALSE, exc |-> res.raised, rel |-> res.rel]

\* reserve that swallows the IntegrityError and still reports success
reserve_result_true(rel, w, table_name, key) ==
    LET job_key == [table_name |-> table_name, key_hash |-> key_hash(key),
                    status |-> "reserved", host |-> nodename(w), pid |-> getpid(w)]
        res == insert1(rel, job_key, FALSE)
    IN  [ret |-> TRUE, exc |-> "None", rel |-> res.rel]

reserve_result(rel, w, table_name, key) ==
    LET job_key == [table_name |-> table_name, key_hash |-> key_hash(key),
                    status |-> "reserved", host |-> nodename(w), pid |-> getpid(w)]
        res == insert1(rel, job_key, FALSE)
    IN  IF res.raised = "IntegrityError"
        THEN [ret |-> FALSE, exc |-> "None", rel |-> res.rel]
        ELSE [ret |-> res.raised = "None", exc |-> res.raised, rel |-> res.rel]

reserve(w, table_name, key) ==
    LET res == reserve_result(jobs, w, table_name, key)
        u == UnitOf(table_name, key)
    IN  /\ jobs' = res.rel
        /\ last' = Call("reserve", w, table_name, key, "",
                        IF res.exc # "None" THEN "None"
                        ELSE IF res.ret THEN "True" ELSE "False", res.exc)
        /\ grants' = IF res.ret THEN [grants EXCEPT ![u] = Bump(@)] ELSE grants
        /\ race' = RaceAfterReserve(w, table_name, key, res.ret)
        /\ cycle' = IF ~res.ret THEN NoCycle
                     ELSE IF cycle.stage = 2 /\ cycle.unit = u
                          THEN [stage |-> 3, unit |-> u]
                          ELSE [stage |-> 1, unit |-> u]
        /\ UNCHANGED <<hashVars, registryVars, crashed>>

\* complete that deletes only an error entry
complete_result_error_only(rel, table_name, key) ==
    LET job_key == [table_name |-> table_name, key_hash |-> key_hash(key),
                    status |-> "error"]
    IN  delete_quick(rel, job_key)

\* complete that restricts by table_name only
complete_result_whole_table(rel, table_name, key) ==
    LET job_key == [table_name |-> table_name]
    IN  delete_quick(rel, job_key)

\* complete that insists on an entry to delete
complete_result_strict(rel, table_name, key) ==
    LET job_key == [table_name |-> table_name, key_hash |-> key_hash(key)]
        res == delete_quick(rel, job_key)
    IN  IF res.rel = rel THEN [raised |-> "DataJointError", rel |-> rel] ELSE res

complete_result(rel, table_name, key) ==
    LET job_key == [table_name |-> table_name, key_hash |-> key_hash(key)]
    IN  delete_quick(rel, job_key)

complete(w, table_name, key) ==
    LET res == complete_result(jobs, table_name, key)
        u == UnitOf(table_name, key)
    IN  /\ jobs' = res.rel
        /\ last' = Call("complete", w, table_name, key, "", "None", res.raised)
        /\ grants' = IF res.raised = "None" THEN [grants EXCEPT ![u] = 0] ELSE grants
        /\ cycle' = IF res.raised = "None" /\ cycle.stage \in {1, 3} /\ cycle.unit = u
                     THEN [stage |-> 2, unit |-> u]
                     ELSE NoCycle
        /\ race' = NoRace
        /\ UNCHANGED <<hashVars, registryVars, crashed>>

\* error that leaves error_message out of the inserted dict
error_result_no_message(rel, w, table_name, key, error_message) ==
    LET job_key == [table_name |-> table_name, key_hash |-> key_hash(key)]
        d == [table_name |-> job_key.table_name, key_hash |-> job_key.key_hash,
              status |-> "error", host |-> nodename(w), pid |-> getpid(w)]
    IN  insert1(rel, d, TRUE)

\* error that leaves host and pid out of the inserted dict
error_result_no_identity(rel, w, table_name, key, error_message) ==
    LET job_key == [table_name |-> table_name, key_hash |-> key_hash(key)]
        d == [table_name |-> job_key.table_name, key_hash |-> job_key.key_hash,
              status |-> "error", error_message |-> error_message]
    IN  insert1(rel, d, TRUE)

\* error that writes the wrong member of the status enum
error_result_ignore(rel, w, table_name, key, error_message) ==
    LET job_key == [table_name |-> table_name, key_hash |-> key_hash(key)]
        d == [table_name |-> job_key.table_name, key_hash |-> job_key.key_hash,
              status |-> "ignore", host |-> nodename(w), pid |-> getpid(w),
              error_message |-> error_message]
    IN  insert1(rel, d, TRUE)

\* error with replace=True forgotten
error_result_no_replace(rel, w, table_name, key, error_message) ==
    LET job_key == [table_name |-> table_name, key_hash |-> key_hash(key)]
        d == [table_name |-> job_key.table_name, key_hash |-> job_key.key_hash,
              status |-> "error", host |-> nodename(w), pid |-> getpid(w),
              error_message |-> error_message]
    IN  insert1(rel, d, FALSE)

error_result(rel, w, table_name, key, error_message) ==
    LET job_key == [table_name |-> table_name, key_hash |-> key_hash(key)]
        d == [table_name |-> job_key.table_name, key_hash |-> job_key.key_hash,
              status |-> "error", host |-> nodename(w), pid |-> getpid(w),
              error_message |-> error_message]
    IN  insert1(rel, d, TRUE)

error(w, table_name, key, error_message) ==
    LET res == error_result(jobs, w, table_name, key, error_message)
    IN  /\ jobs' = res.rel
        /\ last' = Call("error", w, table_name, key, error_message, "None", res.raised)
        /\ race' = NoRace
        /\ cycle' = NoCycle
        /\ UNCHANGED <<grants, hashVars, registryVars, crashed>>

-----------------------------------------------------------------------------
(* JobManager *)

Threads == 1..NumThreads

Namespaces == {"db1", "db2", "db3"}

NoRelation == <<>>

ThreadIdle == [at |-> "idle", database |-> ""]

\* JobManager.__init__, before any thread has called __getitem__
InitRegistry ==
    /\ _jobs = [d \in {} |-> NoRelation]
    /\ threads = [t \in Threads |-> ThreadIdle]
    /\ got = [t \in Threads |-> NoRelation]
    /\ made = [d \in Namespaces |-> 0]
    /\ returned = [d \in Namespaces |-> {}]
    /\ declared = {}

\* the test with the membership check left out
missing_always(cache, database) == TRUE

\* database not in self._jobs
missing(cache, database) == database \notin DOMAIN cache

\* thread t enters __getitem__(database) and evaluates the if condition
getitem_check(t, database) ==
    /\ threads[t].at = "idle"
    /\ threads' = [threads EXCEPT ![t] =
           [at |-> IF missing(_jobs, database) THEN "construct" ELSE "return",
            database |-> database]]
    /\ UNCHANGED <<_jobs, got, made, returned, declared>>

\* self._jobs[database] = JobRelation(self.connection, database): a new
\* object, which declares the ~jobs table of the database if need be
getitem_construct(t) ==
    LET database == threads[t].database
        relation == <<database, made[database] + 1>>
    IN  /\ threads[t].at = "construct"
        /\ made' = [made EXCEPT ![database] = @ + 1]
        /\ declared' = declared \cup {database}
        /\ _jobs' = [d \in DOMAIN _jobs \cup {database} |->
                         IF d = database THEN relation ELSE _jobs[d]]
        /\ threads' = [threads EXCEPT ![t].at = "return"]
        /\ UNCHANGED <<got, returned>>

\* return self._jobs[database]
getitem_return(t) ==
    LET database == threads[t].database
    IN  /\ threads[t].at = "return"
        /\ got' = [got EXCEPT ![t] = _jobs[database]]
        /\ returned' = [returned EXCEPT ![database] = @ \cup {_jobs[database]}]
        /\ threads' = [threads EXCEPT ![t] = ThreadIdle]
        /\ UNCHANGED <<_jobs, made, declared>>

-----------------------------------------------------------------------------
(* Specification of the workers sharing one ~jobs table *)

NoDigest == [done |-> FALSE, digest |-> <<>>]

Init ==
    /\ jobs = {}
    /\ last = NoCall
    /\ grants = [u \in Units |-> 0]
    /\ cycle = NoCycle
    /\ race = [NoRace EXCEPT !.phase = "start"]
    /\ hk1 = <<>> /\ hk2 = <<>>
    /\ out1 = NoDigest /\ out2 = NoDigest
    /\ fault = "none"
    /\ crashed = {}
    /\ holding = [w \in Workers |-> <<>>]
    /\ InitRegistry

\* any live worker calls anything at any time
Next ==
    \E w \in Workers \ crashed, j \in Jobs :
        \/ UNCHANGED <<fault, holding>> /\ reserve(w, j[1], j[2])
        \/ UNCHANGED <<fault, holding>> /\ complete(w, j[1], j[2])
        \/ \E error_message \in Messages :
               UNCHANGED <<fault, holding>> /\ error(w, j[1], j[2], error_message)

Spec == Init /\ [][Next]_vars

-----------------------------------------------------------------------------
(* Specification of key_hash applied to two dicts *)

InitHash ==
    /\ jobs = {}
    /\ last = NoCall
    /\ grants = [u \in Units |-> 0]
    /\ cycle = NoCycle
    /\ race = NoRace
    /\ hk1 \in Dicts /\ hk2 \in Dicts
    /\ out1 = NoDigest /\ out2 = NoDigest
    /\ fault = "none"
    /\ crashed = {}
    /\ holding = [w \in Workers |-> <<>>]
    /\ InitRegistry

Hash1 ==
    /\ ~out1.done
    /\ out1' = [done |-> TRUE, digest |-> key_hash(hk1)]
    /\ UNCHANGED <<jobs, last, grants, cycle, race, hk1, hk2, out2, fault, crashed, holding,
                   registryVars>>

Hash2 ==
    /\ ~out2.done
    /\ out2' = [done |-> TRUE, digest |-> key_hash(hk2)]
    /\ UNCHANGED <<jobs, last, grants, cycle, race, hk1, hk2, out1, fault, crashed, holding,
                   registryVars>>

NextHash == Hash1 \/ Hash2

SpecHash == InitHash /\ [][NextHash]_vars

-----------------------------------------------------------------------------
(* Specification of the workers with a database server that can fail *)

Faults == {"none", "constraint", "unavailable"}

\* the calls made while the server may fail: those on one table
FailJobs == {j \in Jobs : j[1] = "T1"}

\* any worker calls anything at any time, in any condition of the server
NextFail ==
    \E w \in Workers \ crashed, j \in FailJobs, f \in Faults :
        \/ fault' = f /\ UNCHANGED holding /\ reserve(w, j[1], j[2])
        \/ fault' = f /\ UNCHANGED holding /\ complete(w, j[1], j[2])
        \/ \E error_message \in Messages :
               fault' = f /\ UNCHANGED holding /\ error(w, j[1], j[2], error_message)

SpecFail == Init /\ [][NextFail]_vars

-----------------------------------------------------------------------------
(* Specification of workers that follow the protocol: reserve, and when   *)
(* that returned True, compute and then call complete or error             *)

Idle == <<>>

Try(w, j) ==
    /\ holding[w] = Idle
    /\ UNCHANGED fault
    /\ reserve(w, j[1], j[2])
    /\ holding' = IF last'.ret = "True" THEN [holding EXCEPT ![w] = j] ELSE holding

Succeed(w) ==
    /\ holding[w] # Idle
    /\ UNCHANGED fault
    /\ complete(w, holding[w][1], holding[w][2])
    /\ holding' = [holding EXCEPT ![w] = Idle]

Fail(w) ==
    /\ holding[w] # Idle
    /\ UNCHANGED fault
    /\ \E error_message \in Messages :
           error(w, holding[w][1], holding[w][2], error_message)
    /\ holding' = [holding EXCEPT ![w] = Idle]

\* the steps in which worker w finishes its job: those of Succeed(w) and Fail(w)
Finish(w) == holding[w] # Idle /\ holding' = [holding EXCEPT ![w] = Idle]

NextWorker ==
    \E w \in Workers \ crashed :
        \/ \E j \in Jobs : Try(w, j)
        \/ Succeed(w)
        \/ Fail(w)

\* a worker that computes a job finishes it
SpecWorker ==
    Init /\ [][NextWorker]_vars /\ \A w \in Workers : WF_holding(Finish(w))

-----------------------------------------------------------------------------
(* Specification of the workers with a tool outside this component that   *)
(* marks units as to be skipped                                            *)

\* the tool writes a row with status ignore for the unit of j
mark_ignore(j) ==
    LET d == [table_name |-> j[1], key_hash |-> key_hash(j[2]), status |-> "ignore"]
    IN  /\ UNCHANGED <<fault, holding>>
        /\ jobs' = insert1(jobs, d, TRUE).rel
        /\ last' = Call("ignore", 0, j[1], j[2], "", "None", "None")
        /\ race' = NoRace
        /\ cycle' = NoCycle
        /\ UNCHANGED <<grants, hashVars, registryVars, crashed>>

NextIgnore == Next \/ \E j \in Jobs : mark_ignore(j)

SpecIgnore == Init /\ [][NextIgnore]_vars

-----------------------------------------------------------------------------
(* Specification of the workers when processes can die *)

WrittenBy(r, w) == r.host = nodename(w) /\ r.pid = getpid(w)

\* worker w dies while a row it reserved is in the table; nothing is cleaned
\* up and w makes no further call
crash(w) ==
    /\ w \notin crashed
    /\ \E r \in jobs : r.status = "reserved" /\ WrittenBy(r, w)
    /\ crashed' = crashed \cup {w}
    /\ last' = [NoCall EXCEPT !.op = "crash", !.w = w]
    /\ UNCHANGED <<jobs, grants, cycle, race, hashVars, registryVars, fault, holding>>

NextCrash == Next \/ \E w \in Workers : crash(w)

SpecCrash == Init /\ [][NextCrash]_vars

-----------------------------------------------------------------------------
(* Specifications of JobManager.__getitem__ *)

jobVars == <<jobs, last, grants, cycle, race, hashVars, fault, crashed, holding>>

\* calls made one after the other: a call starts when no other is under way
NextRegistry ==
    \E t \in Threads :
        \/ \E database \in Namespaces :
               /\ \A t2 \in Threads : threads[t2].at = "idle"
               /\ getitem_check(t, database)
               /\ UNCHANGED jobVars
        \/ getitem_construct(t) /\ UNCHANGED jobVars
        \/ getitem_return(t) /\ UNCHANGED jobVars

SpecRegistry == Init /\ [][NextRegistry]_vars

\* calls made by the threads of one process, switched between statements
NextThreads ==
    \E t \in Threads :
        \/ \E database \in Namespaces :
               getitem_check(t, database) /\ UNCHANGED jobVars
        \/ getitem_construct(t) /\ UNCHANGED jobVars
        \/ getitem_return(t) /\ UNCHANGED jobVars

SpecThreads == Init /\ [][NextThreads]_vars

-----------------------------------------------------------------------------
(* Properties *)

LastUnit == UnitOf(last.table_name, last.key)

HasStatus(rel, u, status) == \E r \in RowsOf(rel, u) : r.status = status

\* the same mapping written in another (or the same) insertion order
IsReordering(d1, d2) ==
    /\ Len(d1) = Len(d2)
    /\ {d1[i] : i \in DOMAIN d1} = {d2[i] : i \in DOMAIN d2}

AsMapping(d) == {d[i] : i \in DOMAIN d}

\* C1: for every unit (table_name, key_hash), between two reserve calls that
\* return True there is a complete call on that unit: the number of reserve
\* calls that returned True since the last complete on the unit never
\* exceeds one.
C1_OneGrantPerComplete == \A u \in Units : grants[u] <= 1

\* a unit granted, completed and granted again
C1_Regranted ==
    /\ cycle.stage = 3
    /\ grants[cycle.unit] = 1
    /\ HasStatus(jobs, cycle.unit, "reserved")

\* C2: when the calls made so far are reserves of one (table_name, key) by
\* distinct workers on the initially empty table, exactly one of them
\* returned True and all the others returned False.
C2_ExactlyOneWinner ==
    race.phase = "racing" =>
        /\ Cardinality(race.winners) = 1
        /\ Cardinality(race.losers) = Cardinality(race.winners \cup race.losers) - 1

\* every worker has made its reserve call in the race
C2_AllRaced ==
    /\ race.phase = "racing"
    /\ race.winners \cup race.losers = Workers
    /\ Cardinality(jobs) = 1

\* C3: reserve returns True exactly when the table holds no row of the unit
\* when the insert runs, and the table then gains one row, of that unit, with
\* status reserved; it returns False exactly when a row of the unit exists,
\* and the table is then left as it was.
C3_ReserveOutcome ==
    [][last'.op = "reserve" =>
        LET u == UnitOf(last'.table_name, last'.key)
        IN  /\ last'.exc = "None"
            /\ (last'.ret = "True") <=> (RowsOf(jobs, u) = {})
            /\ (last'.ret = "False") <=> (RowsOf(jobs, u) # {})
            /\ last'.ret = "True" =>
                   /\ jobs \subseteq jobs'
                   /\ Cardinality(jobs' \ jobs) = 1
                   /\ \A r \in jobs' \ jobs :
                          /\ r.status = "reserved"
                          /\ <<r.table_name, r.key_hash>> = u
            /\ last'.ret = "False" => jobs' = jobs]_vars

\* a reserve refused because of an error row, which it left in place
C3_RefusedOnErrorRow ==
    /\ last.op = "reserve"
    /\ last.ret = "False"
    /\ last.existed
    /\ HasStatus(jobs, LastUnit, "error")

\* C4: after complete no row of the unit exists, and the reserve that
\* directly follows a successful reserve and a complete of the same unit
\* returns True.
C4_CompleteFrees ==
    [][/\ last'.op = "complete" =>
              RowsOf(jobs', UnitOf(last'.table_name, last'.key)) = {}
       /\ (/\ cycle.stage = 2
           /\ last'.op = "reserve"
           /\ UnitOf(last'.table_name, last'.key) = cycle.unit)
          => last'.ret = "True"]_vars

\* reserve, complete and reserve again of one unit, the last one successful
C4_ReservedAgain ==
    /\ cycle.stage = 3
    /\ last.op = "reserve"
    /\ last.ret = "True"
    /\ ~last.existed

\* C5: after error the unit has one row, with status error and the message
\* passed; as long as no complete is called on the unit, the unit keeps an
\* error row and every reserve on it returns False.
C5_ErrorBlocks ==
    [][/\ last'.op = "error" =>
              LET rows == RowsOf(jobs', UnitOf(last'.table_name, last'.key))
              IN  /\ Cardinality(rows) = 1
                  /\ \A r \in rows : /\ r.status = "error"
                                     /\ r.error_message = last'.error_message
       /\ \A u \in Units :
              (/\ HasStatus(jobs, u, "error")
               /\ ~(/\ last'.op = "complete"
                    /\ UnitOf(last'.table_name, last'.key) = u))
              => /\ HasStatus(jobs', u, "error")
                 /\ (/\ last'.op = "reserve"
                     /\ UnitOf(last'.table_name, last'.key) = u)
                    => last'.ret = "False"]_vars

\* a unit reserved, reported as failed and then refused to a reserve
C5_RefusedAfterError ==
    /\ last.op = "reserve"
    /\ last.ret = "False"
    /\ grants[LastUnit] = 1
    /\ \E r \in RowsOf(jobs, LastUnit) :
           r.status = "error" /\ r.error_message = "boom"

\* C6: complete raises nothing; on a unit without a row it leaves the table
\* as it was; and a second complete of the same unit changes nothing more.
C6_CompleteIdempotent ==
    [][last'.op = "complete" =>
        LET again == complete_result(jobs', last'.table_name, last'.key)
        IN  /\ last'.exc = "None"
            /\ RowsOf(jobs, UnitOf(last'.table_name, last'.key)) = {}
                   => jobs' = jobs
            /\ again.raised = "None"
            /\ again.rel = jobs']_vars

\* a complete of a unit that had no row, with other rows in the table
C6_CompletedNothing ==
    /\ last.op = "complete"
    /\ ~last.existed
    /\ last.exc = "None"
    /\ jobs # {}

\* C7: key_hash gives the same digest for a dict and for any reordering of
\* its items.
C7_OrderIndependent ==
    (out1.done /\ out2.done /\ IsReordering(hk1, hk2))
        => out1.digest = out2.digest

\* two different insertion orders of one mapping, both hashed
C7_HashedBothOrders ==
    /\ out1.done /\ out2.done
    /\ IsReordering(hk1, hk2)
    /\ hk1 # hk2

\* C8: two dicts that differ as mappings, in a field name or in a value,
\* get different digests.
C8_DistinctKeysDistinctDigests ==
    (out1.done /\ out2.done /\ AsMapping(hk1) # AsMapping(hk2))
        => out1.digest # out2.digest

\* C9: the table never holds two rows with the same (table_name, key_hash).
C9_OneRowPerUnit ==
    \A r1, r2 \in jobs :
        (r1.table_name = r2.table_name /\ r1.key_hash = r2.key_hash) => r1 = r2

\* an error call has replaced the row its unit already had
C9_Replaced ==
    /\ last.op = "error"
    /\ last.existed
    /\ Cardinality(RowsOf(jobs, LastUnit)) = 1
    /\ Cardinality(jobs) > 1

\* C10: the row written by an error call has status error and holds in its
\* key attribute the key that was passed to the call.
C10_ErrorRowHoldsKey ==
    last.op = "error" =>
        \A r \in RowsOf(jobs, LastUnit) :
            r.status = "error" /\ r.key = Blob(last.key)

\* C11: a reserve returns False only when its insert failed on a duplicate
\* (table_name, key_hash); when the insert fails for any other reason the
\* failure reaches the caller as an exception and nothing is returned.
C11_OnlyDuplicateIsFalse ==
    last.op = "reserve" =>
        /\ (last.ret = "False") <=> (fault = "none" /\ last.existed)
        /\ fault # "none" => (last.exc # "None" /\ last.ret = "None")

\* C12: a worker whose reserve returned True and that goes on to call
\* complete or error leaves no reserved row behind: when that call returns
\* the unit has no row with status reserved, and every worker that holds a
\* job gets there.
C12_NeverLeftReserved ==
    /\ [][\A w \in Workers :
             (holding[w] # Idle /\ holding'[w] = Idle)
                 => ~HasStatus(jobs', UnitOf(holding[w][1], holding[w][2]), "reserved")]_vars
    /\ \A w \in Workers : (holding[w] # Idle) ~> (holding[w] = Idle)

\* a worker has reported its job as failed while another is still computing
C12_FinishedWithError ==
    /\ last.op = "error"
    /\ holding[last.w] = Idle
    /\ HasStatus(jobs, LastUnit, "error")
    /\ ~HasStatus(jobs, LastUnit, "reserved")
    /\ \E w \in Workers : holding[w] # Idle

\* C13: reserve, complete and error never write the status ignore: every
\* row of the table, which starts empty, has status reserved or error.
C13_NoIgnoreWritten == \A r \in jobs : r.status \in {"reserved", "error"}

\* the table holds a reserved row and an error row
C13_BothStatuses ==
    /\ \E r \in jobs : r.status = "reserved"
    /\ \E r \in jobs : r.status = "error"

\* C16: a row with status ignore stays in the table, as it is, through any
\* reserve, complete or error called on its unit.
C16_IgnoreIsInert ==
    [][\A r \in jobs :
          (/\ r.status = "ignore"
           /\ last'.op \in {"reserve", "complete", "error"}
           /\ UnitOf(last'.table_name, last'.key) = <<r.table_name, r.key_hash>>)
          => r \in jobs']_vars

\* the reserved rows of workers that have died
Stale == {r \in jobs : r.status = "reserved" /\ \E w \in crashed : WrittenBy(r, w)}

\* C15: the reserved row of a dead worker does not expire: it stays as it is
\* through every step that is not a complete or an error on its unit, and a
\* unit that has a row keeps one, and refuses every reserve, for as long as
\* no complete is called on it.
C15_StaleRowStays ==
    [][/\ \A r \in Stale :
              ~(/\ last'.op \in {"complete", "error"}
                /\ UnitOf(last'.table_name, last'.key) = <<r.table_name, r.key_hash>>)
              => r \in jobs'
       /\ \A u \in Units :
              (/\ RowsOf(jobs, u) # {}
               /\ ~(/\ last'.op = "complete"
                    /\ UnitOf(last'.table_name, last'.key) = u))
              => /\ RowsOf(jobs', u) # {}
                 /\ (/\ last'.op = "reserve"
                     /\ UnitOf(last'.table_name, last'.key) = u)
                    => last'.ret = "False"]_vars

\* a reserve refused because of the reserved row of a dead worker
C15_RefusedByStaleRow ==
    /\ last.op = "reserve"
    /\ last.ret = "False"
    /\ last.w \notin crashed
    /\ \E r \in Stale : <<r.table_name, r.key_hash>> = LastUnit /\ ~WrittenBy(r, last.w)

RowUnit(r) == <<r.table_name, r.key_hash>>

LastUnitNext == UnitOf(last'.table_name, last'.key)

\* C17: host and pid of a row are those of the worker whose call wrote it: a
\* reserve that returns True and an error leave the row of their unit with
\* the caller's host and pid, a reserve that returns False changes no row,
\* and no call changes a row of another unit.
C17_RowNamesItsWriter ==
    [][last'.op \in {"reserve", "complete", "error"} =>
        /\ (last'.ret = "True" \/ last'.op = "error") =>
               /\ RowsOf(jobs', LastUnitNext) # {}
               /\ \A r \in RowsOf(jobs', LastUnitNext) :
                      r.host = nodename(last'.w) /\ r.pid = getpid(last'.w)
        /\ last'.ret = "False" => jobs' = jobs
        /\ \A r \in jobs : RowUnit(r) # LastUnitNext => r \in jobs']_vars

\* a refused reserve has left the row with the host and pid of its writer
C17_RefusedKeepsWriter ==
    /\ last.op = "reserve"
    /\ last.ret = "False"
    /\ \E r \in RowsOf(jobs, LastUnit) : ~WrittenBy(r, last.w)
    /\ \E r \in jobs : r.host = "hostB"

\* C18 as claimed: a complete or error called by a worker other than the
\* one that reserved a row leaves that reserved row in the table as it is.
C18_OnlyHolderEnds ==
    [][\A r \in jobs :
          (/\ r.status = "reserved"
           /\ last'.op \in {"complete", "error"}
           /\ ~WrittenBy(r, last'.w))
          => r \in jobs']_vars

\* C18 as amended: a complete or error called by a worker other than the one
\* that reserved a row leaves that reserved row in the table as it is when
\* the call is on another unit (table_name, key_hash).
C18_OthersOnOtherUnits ==
    [][\A r \in jobs :
          (/\ r.status = "reserved"
           /\ last'.op \in {"complete", "error"}
           /\ ~WrittenBy(r, last'.w)
           /\ LastUnitNext # RowUnit(r))
          => r \in jobs']_vars

\* a worker has completed or failed a unit that had a row while another
\* worker's reservation of another unit of the same table is in place
C18_OtherReservationInPlace ==
    /\ last.op \in {"complete", "error"}
    /\ last.existed
    /\ \E r \in jobs : /\ r.status = "reserved"
                        /\ ~WrittenBy(r, last.w)
                        /\ r.table_name = last.table_name
                        /\ RowUnit(r) # LastUnit

\* C19: two units of work that differ in the table name or in the key
\* mapping do not affect each other: when the only row is the one just
\* reserved for one of them, a reserve of the other returns True, and a
\* complete or error of the other leaves that row as it is.
C19_DistinctWorkIndependent ==
    [][(/\ last.op = "reserve"
        /\ last.ret = "True"
        /\ Cardinality(jobs) = 1
        /\ last'.op \in {"reserve", "complete", "error"}
        /\ \/ last'.table_name # last.table_name
           \/ AsMapping(last'.key) # AsMapping(last.key))
       => /\ last'.op = "reserve" => last'.ret = "True"
          /\ jobs \subseteq jobs']_vars

\* one JobRelation per database, and it is the one every call returned
OnePerNamespace ==
    \A d \in Namespaces :
        /\ made[d] <= 1
        /\ made[d] = 1 <=> d \in DOMAIN _jobs
        /\ returned[d] # {} => returned[d] = {_jobs[d]}

\* C14: with calls made one after the other, a JobRelation is constructed
\* once for each database asked for, every call for that database returns
\* that object, and an entry of the cache is never removed or replaced.
C14_SameStoreForLife ==
    [][/\ OnePerNamespace'
       /\ \A d \in DOMAIN _jobs : d \in DOMAIN _jobs' /\ _jobs'[d] = _jobs[d]]_vars

\* two calls for one database have returned, both with the object that the
\* first of them constructed
C14_ReturnedTwice ==
    /\ \A t \in Threads : threads[t].at = "idle"
    /\ \E t1, t2 \in Threads :
           /\ t1 # t2
           /\ got[t1] # NoRelation
           /\ got[t1] = got[t2]
    /\ DOMAIN _jobs = Namespaces

\* C20: with the threads of one process calling concurrently, a JobRelation
\* is still constructed at most once for each database and every call for
\* that database returns the same object.
C20_ConstructedOnce ==
    \A d \in Namespaces : made[d] <= 1 /\ Cardinality(returned[d]) <= 1

====
